---- MODULE Spec2Model ----
(***************************************************************************)
(* Model of avatarmud-client-rs (src/src/main.rs): the session loop of a   *)
(* line-based telnet client with GMCP support.  One action per statement   *)
(* group of main(); every .expect()/.unwrap() of the source and every      *)
(* println! is a point where the process may panic.                        *)
(***************************************************************************)
EXTENDS Integers, Sequences, FiniteSets, TLC

VARIABLES
    pc,            \* position of main(): next statement group to execute
    panic,         \* panic message of an abrupt termination, "" if none
    input_buffer,  \* main.rs:56  let mut input_buffer = String::new()
    telnet_event,  \* main.rs:70  let telnet_event = telnet.read_nonblocking()
    c_lflag,       \* termios.c_lflag of the terminal behind stdin (set of flags)
    stdout_buf,    \* bytes handed to io::stdout() and not yet written through
    fed,           \* history: every byte read from stdin so far
    out,           \* history: successful calls on the Telnet session, in order
    echo_calls,    \* history: arguments of the set_echo invocations, in order
    echo_seen,     \* history: actions of the processed ECHO negotiations, in order
    trace,         \* history: calls made in the current loop iteration, in order
    iter           \* number of completed loop iterations

vars == <<pc, panic, input_buffer, telnet_event, c_lflag, stdout_buf,
          fed, out, echo_calls, echo_seen, trace, iter>>

----------------------------------------------------------------------------
(* Bounds of the exploration *)

MaxFed == 4      \* total number of bytes typed on stdin
MaxIter == 2     \* number of loop iterations
MaxData == 1     \* length of a Data payload

(* Program constants *)

TELOPT_GMCP == 201
TELOPT_ECHO == 1
OTHER_OPTION == 3   \* some option that is neither ECHO nor GMCP

NL == "\n"
CR == "\r"
BAD == "0xFF"    \* a byte that is not valid UTF-8

MaxEchoCalls == 3   \* calls of set_echo in the Echo Controller harness

Chars == {"a", NL}
DataBytes == {"x", CR, NL}
OtherFlags == {"ICANON"}

(* The terminal at startup: cooked, with echo on or off *)
InitialFlags == {OtherFlags, {"ECHO"} \cup OtherFlags}

CoreHello ==
    "Core.Hello { \"client\": \"avatarmud-client-rs\", \"version\": \"0.1.0\" }"
CoreSupportsSet ==
    "Core.Supports.Set [ \"Core 1\",\"Char 1\",\"Room 1\",\"Comm 1\",\"IRE.Composer 1\" ]"

----------------------------------------------------------------------------
(* Values *)

SeqsUpTo(S, n) == UNION {[1..k -> S] : k \in 0..n}

Last(s) == s[Len(s)]

(* A call on the Telnet session, or on another collaborator *)
Call(name, a, o, bytes) == [op |-> name, action |-> a, option |-> o, data |-> bytes]
Write(bytes) == Call("write", "-", 0, bytes)
Negotiate(a, o) == Call("negotiate", a, o, <<>>)
Subnegotiate(o, payload) == Call("subnegotiate", "-", o, payload)
Local(name, bytes) == Call(name, "-", 0, bytes)

(* telnet::Event *)
Event(t, a, o, bytes) == [type |-> t, action |-> a, option |-> o, data |-> bytes]
NoData == Event("NoData", "-", 0, <<>>)
Data(bytes) == Event("Data", "-", 0, bytes)
Error(msg) == Event("Error", "-", 0, msg)
Negotiation(a, o) == Event("Negotiation", a, o, <<>>)
Subnegotiation(o, bytes) == Event("Subnegotiation", "-", o, bytes)

Actions == {"Will", "Wont", "Do", "Dont"}
Options == {TELOPT_ECHO, TELOPT_GMCP, OTHER_OPTION}
Payloads == {<<"g">>, <<BAD>>}

Events ==
    {NoData} \cup {Error(<<"e">>)}
    \cup {Data(b) : b \in SeqsUpTo(DataBytes, MaxData)}
    \cup {Negotiation(a, o) : a \in Actions, o \in Options}
    \cup {Subnegotiation(o, p) : o \in {TELOPT_GMCP, OTHER_OPTION}, p \in Payloads}

(* What the local input source can deliver in one poll, n bytes at most *)
StdinChunks(n) == SeqsUpTo(Chars, n) \cup (IF n >= 1 THEN {<<BAD>>} ELSE {})

----------------------------------------------------------------------------
(* Pure functions *)

(* Mutant of IsUtf8: a lossy conversion, which accepts every byte string *)
IsUtf8_lossy(bytes) == TRUE

(* String::from_utf8 / std::str::from_utf8: succeeds iff every byte is text *)
IsUtf8(bytes) == \A i \in 1..Len(bytes) : bytes[i] # BAD

(* Mutant of push_str: the poll overwrites the pending text *)
push_str_replace(s, t) == t

(* String::push_str, line 62 *)
push_str(s, t) == s \o t

(* Mutant of NeedsFlush: every chunk is flushed *)
NeedsFlush_always(buffer) == TRUE

(* line 75: buffer.last().unwrap() != &b'\r' *)
NeedsFlush(buffer) == Last(buffer) # CR

(* Mutant of splitn: the separator is left at the head of the rest *)
RECURSIVE splitn_keepsep(_, _, _)
splitn_keepsep(s, n, sep) ==
    IF n = 0 THEN <<>>
    ELSE IF n = 1 \/ ~(\E i \in 1..Len(s) : s[i] = sep) THEN <<s>>
    ELSE LET i == CHOOSE k \in 1..Len(s) :
                      s[k] = sep /\ \A m \in 1..(k - 1) : s[m] # sep
         IN  <<SubSeq(s, 1, i - 1)>> \o splitn_keepsep(SubSeq(s, i, Len(s)), n - 1, sep)

(* str::splitn(n, sep): at most n pieces, the last one the unsplit rest *)
(* Mutant of splitn: the separator is never found *)
splitn_never(s, n, sep) == <<s>>

RECURSIVE splitn(_, _, _)
splitn(s, n, sep) ==
    IF n = 0 THEN <<>>
    ELSE IF n = 1 \/ ~(\E i \in 1..Len(s) : s[i] = sep) THEN <<s>>
    ELSE LET i == CHOOSE k \in 1..Len(s) :
                      s[k] = sep /\ \A m \in 1..(k - 1) : s[m] # sep
         IN  <<SubSeq(s, 1, i - 1)>> \o splitn(SubSeq(s, i + 1, Len(s)), n - 1, sep)

(* Mutant of SetEchoFlag: `&= ECHO` for `&= !ECHO` *)
SetEchoFlag_missingNot(lflag, echo) ==
    IF echo THEN lflag \cup {"ECHO"} ELSE lflag \cap {"ECHO"}

(* Mutant of SetEchoFlag: the flag is toggled when echo is to be cleared *)
SetEchoFlag_toggle(lflag, echo) ==
    IF echo \/ "ECHO" \notin lflag THEN lflag \cup {"ECHO"} ELSE lflag \ {"ECHO"}

(* set_echo, lines 32-36: the flag word after the update *)
SetEchoFlag(lflag, echo) ==
    IF echo THEN lflag \cup {"ECHO"} ELSE lflag \ {"ECHO"}

(* io::stdout() is line buffered: a write holding a newline goes through up *)
(* to its last newline, together with everything buffered before it         *)
LineWrite(buf, bytes) ==
    IF \E i \in 1..Len(bytes) : bytes[i] = NL
    THEN LET i == CHOOSE k \in 1..Len(bytes) :
                      bytes[k] = NL /\ \A m \in (k + 1)..Len(bytes) : bytes[m] # NL
         IN  SubSeq(bytes, i + 1, Len(bytes))
    ELSE buf \o bytes

(* Mutant of GmcpReply: Core.Supports.Set sent before Core.Hello *)
GmcpReply_SupportsFirst ==
    << [op |-> "negotiate", action |-> "Do", option |-> 201, data |-> <<>>],
       [op |-> "subnegotiate", action |-> "-", option |-> 201, data |-> <<CoreSupportsSet>>],
       [op |-> "subnegotiate", action |-> "-", option |-> 201, data |-> <<CoreHello>>] >>

(* The three calls of the Will-GMCP arm, lines 91-96 *)
GmcpReply ==
    << Negotiate("Do", TELOPT_GMCP),
       Subnegotiate(TELOPT_GMCP, <<CoreHello>>),
       Subnegotiate(TELOPT_GMCP, <<CoreSupportsSet>>) >>

GmcpReplyPanic ==
    << "Failed to negotiate TELOPT_GMCP",
       "Failed to send Core.Hello",
       "Failed to send Core.Supports.Set" >>

----------------------------------------------------------------------------
(* State machine *)

Init ==
    /\ pc = "resolve"
    /\ panic = ""
    /\ input_buffer = <<>>
    /\ telnet_event = NoData
    /\ c_lflag \in InitialFlags
    /\ stdout_buf = <<>>
    /\ fed = <<>>
    /\ out = <<>>
    /\ echo_calls = <<>>
    /\ echo_seen = <<>>
    /\ trace = <<>>
    /\ iter = 0

(* .expect(msg) / .unwrap() on an Err or None: the process panics *)
Panic(msg) == pc' = "panicked" /\ panic' = msg

Goto(next) == pc' = next /\ UNCHANGED panic

(* set_echo(fd, echo), lines 29-39, then continue at `next` *)
set_echo(echo, next) ==
    /\ echo_calls' = Append(echo_calls, echo)
    /\ \/ /\ Panic("Failed to tcgetattr")
          /\ UNCHANGED c_lflag
       \/ /\ Panic("Failed to tcsetattr")
          /\ UNCHANGED c_lflag
       \/ /\ c_lflag' = SetEchoFlag(c_lflag, echo)
          /\ Goto(next)

(* lines 42-45 *)
Resolve ==
    /\ pc = "resolve"
    /\ \/ Panic("Failed to resolve hostname")
       \/ Panic("Address iterator returned none")
       \/ Goto("connect")
    /\ UNCHANGED <<input_buffer, telnet_event, c_lflag, stdout_buf, fed, out,
                   echo_calls, echo_seen, trace, iter>>

(* lines 46-48 *)
Connect ==
    /\ pc = "connect"
    /\ \/ Panic("Connection failed")
       \/ Panic("failed printing to stdout")
       \/ Goto("negotiate")
    /\ UNCHANGED <<input_buffer, telnet_event, c_lflag, stdout_buf, fed, out,
                   echo_calls, echo_seen, trace, iter>>

(* Mutant of InitialNegotiate: the result of negotiate is ignored *)
InitialNegotiate_unchecked ==
    /\ pc = "negotiate"
    /\ \/ out' = out
       \/ out' = Append(out, [op |-> "negotiate", action |-> "Do", option |-> 201,
                              data |-> <<>>])
    /\ pc' = "set_echo"
    /\ UNCHANGED <<panic, input_buffer, telnet_event, c_lflag, stdout_buf, fed,
                   echo_calls, echo_seen, trace, iter>>

(* lines 49-51 *)
InitialNegotiate ==
    /\ pc = "negotiate"
    /\ \/ /\ Panic("Failed to negotiate TELOPT_GMCP")
          /\ UNCHANGED out
       \/ /\ out' = Append(out, Negotiate("Do", TELOPT_GMCP))
          /\ Goto("set_echo")
    /\ UNCHANGED <<input_buffer, telnet_event, c_lflag, stdout_buf, fed,
                   echo_calls, echo_seen, trace, iter>>

(* line 53 *)
InitialSetEcho ==
    /\ pc = "set_echo"
    /\ set_echo(TRUE, "open_stdin")
    /\ UNCHANGED <<input_buffer, telnet_event, stdout_buf, fed, out,
                   echo_seen, trace, iter>>

(* lines 54-56 *)
OpenStdin ==
    /\ pc = "open_stdin"
    /\ \/ Panic("Failed to open non-blocking stdin")
       \/ Goto("read_stdin")
    /\ input_buffer' = <<>>
    /\ UNCHANGED <<telnet_event, c_lflag, stdout_buf, fed, out,
                   echo_calls, echo_seen, trace, iter>>

(* lines 60-64: poll stdin, append, split on the first newline *)
PollStdin ==
    /\ pc = "read_stdin"
    /\ \/ /\ Panic("Result::unwrap() on an Err value")
          /\ trace' = <<Local("read_available_to_string", <<>>)>>
          /\ UNCHANGED <<input_buffer, fed>>
       \/ \E buf \in StdinChunks(MaxFed - Len(fed)) :
            /\ fed' = fed \o buf
            /\ trace' = <<Local("read_available_to_string", buf)>>
            /\ IF IsUtf8(buf)
               THEN /\ input_buffer' = push_str(input_buffer, buf)
                    /\ IF Len(splitn(input_buffer', 2, NL)) > 1
                       THEN Goto("write_line")
                       ELSE Goto("read_socket")
               ELSE /\ Panic("Result::unwrap() on an Err value")
                    /\ UNCHANGED input_buffer
    /\ UNCHANGED <<telnet_event, c_lflag, stdout_buf, out, echo_calls,
                   echo_seen, iter>>

(* lines 58-64: the loop, followed for MaxIter iterations *)
ReadStdin ==
    /\ iter < MaxIter
    /\ PollStdin

(* Mutant of WriteLine: a failed write is tried again *)
WriteLine_retry ==
    /\ pc = "write_line"
    /\ trace' = Append(trace, [op |-> "write", action |-> "-", option |-> 0,
                                data |-> splitn(input_buffer, 2, NL)[1]])
    /\ \/ /\ pc' = "write_line"
          /\ out' = out
       \/ /\ out' = Append(out, [op |-> "write", action |-> "-", option |-> 0,
                                  data |-> splitn(input_buffer, 2, NL)[1]])
          /\ pc' = "write_nl"
    /\ UNCHANGED <<panic, input_buffer, telnet_event, c_lflag, stdout_buf, fed,
                   echo_calls, echo_seen, iter>>

(* line 65 *)
WriteLine ==
    /\ pc = "write_line"
    /\ LET parts == splitn(input_buffer, 2, NL) IN
       /\ trace' = Append(trace, Write(parts[1]))
       /\ \/ /\ Panic("Result::unwrap() on an Err value")
             /\ UNCHANGED out
          \/ /\ out' = Append(out, Write(parts[1]))
             /\ Goto("write_nl")
    /\ UNCHANGED <<input_buffer, telnet_event, c_lflag, stdout_buf, fed,
                   echo_calls, echo_seen, iter>>

(* Mutant of WriteNewline: the newline is not sent *)
WriteNewline_noNewline ==
    /\ pc = "write_nl"
    /\ trace' = trace
    /\ out' = out
    /\ input_buffer' = splitn(input_buffer, 2, NL)[2]
    /\ pc' = "read_socket"
    /\ UNCHANGED <<panic, telnet_event, c_lflag, stdout_buf, fed,
                   echo_calls, echo_seen, iter>>

(* lines 66-67 *)
WriteNewline ==
    /\ pc = "write_nl"
    /\ LET parts == splitn(input_buffer, 2, NL) IN
       /\ trace' = Append(trace, Write(<<NL>>))
       /\ \/ /\ Panic("Result::unwrap() on an Err value")
             /\ UNCHANGED <<out, input_buffer>>
          \/ /\ out' = Append(out, Write(<<NL>>))
             /\ input_buffer' = parts[2]
             /\ Goto("read_socket")
    /\ UNCHANGED <<telnet_event, c_lflag, stdout_buf, fed,
                   echo_calls, echo_seen, iter>>

(* line 70 *)
ReadEvent(available) ==
    /\ pc = "read_socket"
    /\ trace' = Append(trace, Local("read_nonblocking", <<>>))
    /\ \/ /\ Panic("Read error")
          /\ UNCHANGED telnet_event
       \/ \E e \in available :
            /\ telnet_event' = e
            /\ Goto("match")
    /\ UNCHANGED <<input_buffer, c_lflag, stdout_buf, fed, out,
                   echo_calls, echo_seen, iter>>

(* line 70: the session can deliver any event *)
ReadNonblocking == ReadEvent(Events)

(* Mutant of HandleData: an empty chunk is written and nothing more *)
HandleData_emptyOk ==
    /\ pc = "match"
    /\ telnet_event.type = "Data"
    /\ trace' = Append(trace, [op |-> "stdout_write", action |-> "-", option |-> 0,
                                data |-> telnet_event.data])
    /\ IF telnet_event.data = <<>> \/ telnet_event.data[Len(telnet_event.data)] = "\r"
       THEN stdout_buf' = stdout_buf \o telnet_event.data
       ELSE stdout_buf' = <<>>
    /\ pc' = "sleep"
    /\ UNCHANGED <<panic, input_buffer, telnet_event, c_lflag, fed, out,
                   echo_calls, echo_seen, iter>>

(* lines 72-79 *)
HandleData ==
    /\ pc = "match"
    /\ telnet_event.type = "Data"
    /\ LET buffer == telnet_event.data
           written == Append(trace, Local("stdout_write", buffer))
       IN  \/ /\ Panic("Failed to write to stdout")
              /\ trace' = written
              /\ UNCHANGED stdout_buf
           \/ /\ buffer = <<>>
              /\ Panic("Option::unwrap() on a None value")
              /\ trace' = written
              /\ stdout_buf' = LineWrite(stdout_buf, buffer)
           \/ /\ buffer # <<>>
              /\ NeedsFlush(buffer)
              /\ trace' = Append(written, Local("flush", <<>>))
              /\ \/ /\ Panic("Failed to flush")
                    /\ stdout_buf' = LineWrite(stdout_buf, buffer)
                 \/ /\ stdout_buf' = <<>>
                    /\ Goto("sleep")
           \/ /\ buffer # <<>>
              /\ ~NeedsFlush(buffer)
              /\ trace' = written
              /\ stdout_buf' = LineWrite(stdout_buf, buffer)
              /\ Goto("sleep")
    /\ UNCHANGED <<input_buffer, telnet_event, c_lflag, fed, out,
                   echo_calls, echo_seen, iter>>

(* Mutant of HandleError: the break is missing *)
HandleError_noBreak ==
    /\ pc = "match"
    /\ telnet_event.type = "Error"
    /\ trace' = Append(trace, [op |-> "println", action |-> "-", option |-> 0,
                                data |-> telnet_event.data])
    /\ stdout_buf' = <<>>
    /\ pc' = "sleep"
    /\ UNCHANGED <<panic, input_buffer, telnet_event, c_lflag, fed, out,
                   echo_calls, echo_seen, iter>>

(* Mutant of HandleError: the terminal echo is switched back on before the break *)
HandleError_restores ==
    /\ pc = "match"
    /\ telnet_event.type = "Error"
    /\ trace' = Append(trace, [op |-> "println", action |-> "-", option |-> 0,
                                data |-> telnet_event.data])
    /\ stdout_buf' = <<>>
    /\ echo_calls' = Append(echo_calls, TRUE)
    /\ c_lflag' = c_lflag \cup {"ECHO"}
    /\ pc' = "exited"
    /\ UNCHANGED <<panic, input_buffer, telnet_event, fed, out, echo_seen, iter>>

(* lines 80-83 *)
HandleError ==
    /\ pc = "match"
    /\ telnet_event.type = "Error"
    /\ trace' = Append(trace, Local("println", telnet_event.data))
    /\ \/ /\ Panic("failed printing to stdout")
          /\ UNCHANGED stdout_buf
       \/ /\ stdout_buf' = LineWrite(stdout_buf, telnet_event.data \o <<NL>>)
          /\ Goto("exited")
    /\ UNCHANGED <<input_buffer, telnet_event, c_lflag, fed, out,
                   echo_calls, echo_seen, iter>>

(* Mutant of HandleWontEcho: the arm matches a Wont of any option *)
HandleWontEcho_anyOption ==
    /\ pc = "match"
    /\ telnet_event.type = "Negotiation"
    /\ telnet_event.action = "Wont"
    /\ trace' = Append(trace, [op |-> "set_echo", action |-> "-", option |-> 0,
                                data |-> <<"true">>])
    /\ echo_seen' = Append(echo_seen, "Wont")
    /\ echo_calls' = Append(echo_calls, TRUE)
    /\ c_lflag' = c_lflag \cup {"ECHO"}
    /\ pc' = "sleep"
    /\ UNCHANGED <<panic, input_buffer, telnet_event, stdout_buf, fed, out, iter>>

(* lines 84-86 *)
HandleWontEcho ==
    /\ pc = "match"
    /\ telnet_event = Negotiation("Wont", TELOPT_ECHO)
    /\ trace' = Append(trace, Local("set_echo", <<"true">>))
    /\ echo_seen' = Append(echo_seen, "Wont")
    /\ set_echo(TRUE, "sleep")
    /\ UNCHANGED <<input_buffer, telnet_event, stdout_buf, fed, out, iter>>

(* Mutant of HandleWillEcho: echo switched on, as in the Wont arm *)
HandleWillEcho_enables ==
    /\ pc = "match"
    /\ telnet_event.type = "Negotiation"
    /\ telnet_event.action = "Will"
    /\ telnet_event.option = TELOPT_ECHO
    /\ trace' = Append(trace, [op |-> "set_echo", action |-> "-", option |-> 0,
                                data |-> <<"true">>])
    /\ echo_seen' = Append(echo_seen, "Will")
    /\ echo_calls' = Append(echo_calls, TRUE)
    /\ c_lflag' = c_lflag \cup {"ECHO"}
    /\ pc' = "sleep"
    /\ UNCHANGED <<panic, input_buffer, telnet_event, stdout_buf, fed, out, iter>>

(* lines 87-89 *)
HandleWillEcho ==
    /\ pc = "match"
    /\ telnet_event = Negotiation("Will", TELOPT_ECHO)
    /\ trace' = Append(trace, Local("set_echo", <<"false">>))
    /\ echo_seen' = Append(echo_seen, "Will")
    /\ set_echo(FALSE, "sleep")
    /\ UNCHANGED <<input_buffer, telnet_event, stdout_buf, fed, out, iter>>

(* lines 90-97: n of the three calls succeed; the first failure panics *)
HandleWillGmcp ==
    /\ pc = "match"
    /\ telnet_event = Negotiation("Will", TELOPT_GMCP)
    /\ \E n \in 0..3 :
         /\ out' = out \o SubSeq(GmcpReply, 1, n)
         /\ IF n = 3
            THEN /\ trace' = trace \o GmcpReply
                 /\ Goto("sleep")
            ELSE /\ trace' = trace \o SubSeq(GmcpReply, 1, n + 1)
                 /\ Panic(GmcpReplyPanic[n + 1])
    /\ UNCHANGED <<input_buffer, telnet_event, c_lflag, stdout_buf, fed,
                   echo_calls, echo_seen, iter>>

(* lines 98-100 *)
HandleGmcpMessage ==
    /\ pc = "match"
    /\ telnet_event.type = "Subnegotiation"
    /\ telnet_event.option = TELOPT_GMCP
    /\ LET gmcp_message == telnet_event.data IN
       IF IsUtf8(gmcp_message)
       THEN LET text == <<"GMCP message received: ">> \o gmcp_message IN
            /\ trace' = Append(trace, Local("println", text))
            /\ \/ /\ Panic("failed printing to stdout")
                  /\ UNCHANGED stdout_buf
               \/ /\ stdout_buf' = LineWrite(stdout_buf, text \o <<NL>>)
                  /\ Goto("sleep")
       ELSE /\ Panic("Result::unwrap() on an Err value")
            /\ UNCHANGED <<trace, stdout_buf>>
    /\ UNCHANGED <<input_buffer, telnet_event, c_lflag, fed, out,
                   echo_calls, echo_seen, iter>>

(* The events the match names, lines 72-100 *)
Handled(e) ==
    \/ e.type \in {"Data", "Error"}
    \/ e = Negotiation("Wont", TELOPT_ECHO)
    \/ e = Negotiation("Will", TELOPT_ECHO)
    \/ e = Negotiation("Will", TELOPT_GMCP)
    \/ e.type = "Subnegotiation" /\ e.option = TELOPT_GMCP

(* Mutant of HandleOther: an ignored event is followed by another read *)
HandleOther_readsAgain ==
    /\ pc = "match"
    /\ ~Handled(telnet_event)
    /\ pc' = "read_socket"
    /\ UNCHANGED <<panic, input_buffer, telnet_event, c_lflag, stdout_buf, fed, out,
                   echo_calls, echo_seen, trace, iter>>

(* Mutant of HandleOther: an event the match does not name ends the loop *)
HandleOther_breaks ==
    /\ pc = "match"
    /\ ~Handled(telnet_event)
    /\ pc' = "exited"
    /\ UNCHANGED <<panic, input_buffer, telnet_event, c_lflag, stdout_buf, fed, out,
                   echo_calls, echo_seen, trace, iter>>

(* line 101 *)
HandleOther ==
    /\ pc = "match"
    /\ ~Handled(telnet_event)
    /\ Goto("sleep")
    /\ UNCHANGED <<input_buffer, telnet_event, c_lflag, stdout_buf, fed, out,
                   echo_calls, echo_seen, trace, iter>>

(* line 103, and back to the top of the loop; telnet_event goes out of scope *)
EndIteration(n) ==
    /\ pc = "sleep"
    /\ iter' = n
    /\ trace' = <<>>
    /\ telnet_event' = NoData
    /\ Goto("read_stdin")
    /\ UNCHANGED <<input_buffer, c_lflag, stdout_buf, fed, out,
                   echo_calls, echo_seen>>

(* lines 103-104 *)
Sleep == EndIteration(iter + 1)

Next ==
    \/ Resolve \/ Connect \/ InitialNegotiate \/ InitialSetEcho \/ OpenStdin
    \/ ReadStdin \/ WriteLine \/ WriteNewline \/ ReadNonblocking
    \/ HandleData \/ HandleError \/ HandleWontEcho \/ HandleWillEcho
    \/ HandleWillGmcp \/ HandleGmcpMessage \/ HandleOther
    \/ Sleep

Spec == Init /\ [][Next]_vars

----------------------------------------------------------------------------
(* The Echo Controller alone: set_echo (lines 29-39) called with any       *)
(* values, one call after the other, on a terminal with any attributes     *)

TermFlags == {"ECHO", "ICANON", "ISIG", "ECHONL"}

InitEcho ==
    /\ pc = "set_echo"
    /\ panic = ""
    /\ input_buffer = <<>>
    /\ telnet_event = NoData
    /\ c_lflag \in SUBSET TermFlags
    /\ stdout_buf = <<>>
    /\ fed = <<>>
    /\ out = <<>>
    /\ echo_calls = <<>>
    /\ echo_seen = <<>>
    /\ trace = <<>>
    /\ iter = 0

EchoCall ==
    /\ pc = "set_echo"
    /\ Len(echo_calls) < MaxEchoCalls
    /\ \E echo \in BOOLEAN : set_echo(echo, "set_echo")
    /\ UNCHANGED <<input_buffer, telnet_event, stdout_buf, fed, out,
                   echo_seen, trace, iter>>

NextEcho == EchoCall

SpecEcho == InitEcho /\ [][NextEcho]_vars

----------------------------------------------------------------------------
(* The loop of lines 58-104 running for ever.  The histories stay finite:  *)
(* stdin delivers MaxFed bytes in all, and the events whose reaction adds  *)
(* to a history (an ECHO negotiation, Will GMCP, a chunk that stays in the *)
(* stdout buffer) arrive while that history is empty; every other event    *)
(* can arrive in every iteration.  iter counts the iterations up to        *)
(* MaxIter.                                                                *)
IsSubnegotiate(c) == c.op = "subnegotiate"

EventFits(e) ==
    /\ (e.type = "Negotiation" /\ e.option = TELOPT_ECHO /\ e.action \in {"Will", "Wont"})
           => echo_seen = <<>>
    /\ e = Negotiation("Will", TELOPT_GMCP)
           => SelectSeq(out, IsSubnegotiate) = <<>>
    /\ (e.type = "Data" /\ e.data # <<>> /\ ~NeedsFlush(e.data))
           => stdout_buf = <<>>

(* line 70 *)
ReadNonblockingLive == ReadEvent({e \in Events : EventFits(e)})

(* lines 103-104 *)
SleepLive == EndIteration(IF iter < MaxIter THEN iter + 1 ELSE iter)

NextLive ==
    \/ Resolve \/ Connect \/ InitialNegotiate \/ InitialSetEcho \/ OpenStdin
    \/ PollStdin \/ WriteLine \/ WriteNewline \/ ReadNonblockingLive
    \/ HandleData \/ HandleError \/ HandleWontEcho \/ HandleWillEcho
    \/ HandleWillGmcp \/ HandleGmcpMessage \/ HandleOther
    \/ SleepLive

(* Every call returns and the sleep of line 103 ends: the single thread    *)
(* always takes its next step.                                             *)
SpecLive == Init /\ [][NextLive]_vars /\ WF_vars(NextLive)

----------------------------------------------------------------------------
(* Reading the histories *)

RECURSIVE Flatten(_)
Flatten(ss) == IF ss = <<>> THEN <<>> ELSE Head(ss) \o Flatten(Tail(ss))

IsWrite(c) == c.op = "write"

(* The byte strings written to the remote stream by the calls of log *)
Written(log) ==
    LET w == SelectSeq(log, IsWrite) IN [i \in 1..Len(w) |-> w[i].data]

HasNewline(s) == \E i \in 1..Len(s) : s[i] = NL

IsPrefix(s, t) == Len(s) <= Len(t) /\ SubSeq(t, 1, Len(s)) = s

InLoop == pc \in {"read_stdin", "write_line", "write_nl", "read_socket", "match", "sleep"}

(* Position of the remote read in the current iteration's calls, 0 if none yet *)
ReadAt ==
    IF \E k \in 1..Len(trace) : trace[k].op = "read_nonblocking"
    THEN CHOOSE k \in 1..Len(trace) : trace[k].op = "read_nonblocking"
    ELSE 0

(* The calls made by the reaction to the event read in this iteration *)
Reaction == SubSeq(trace, ReadAt + 1, Len(trace))

(* The calls of the input step of this iteration: the poll excluded *)
InputWrites ==
    SubSeq(trace, 2, IF ReadAt = 0 THEN Len(trace) ELSE ReadAt - 1)

----------------------------------------------------------------------------
(* C1: Input Pump, no data loss.  Whenever no line is half sent, the bytes *)
(* written to the remote so far (each line, then its newline) followed by  *)
(* the pending buffer are exactly the bytes read from stdin so far.        *)
C1_NoDataLoss ==
    pc \notin {"write_nl", "panicked"} =>
        Flatten(Written(out)) \o input_buffer = fed

(* Two polls done, a line sent and a partial line pending *)
C1_Witness ==
    /\ pc = "read_socket"
    /\ iter = 1
    /\ Len(Written(out)) >= 2
    /\ input_buffer # <<>>
    /\ Flatten(Written(out)) \o input_buffer = fed

(* C2: after the input step of an iteration the pending buffer holds no    *)
(* newline: every complete line has been removed and sent.                 *)
C2_PendingHasNoNewline ==
    pc = "read_socket" => ~HasNewline(input_buffer)

(* What the current poll worked on, rebuilt from the histories alone: the  *)
(* bytes read before this poll and not yet sent, then the bytes of this poll *)
PollChunk == trace[1].data

PrevPending ==
    LET w == Written(out)
        sentBefore == Flatten(SubSeq(w, 1, Len(w) - Len(InputWrites)))
        fedBefore == SubSeq(fed, 1, Len(fed) - Len(PollChunk))
    IN  SubSeq(fedBefore, Len(sentBefore) + 1, Len(fedBefore))

Accumulated == PrevPending \o PollChunk

(* C3: partial lines are carried across polls.  When the accumulated       *)
(* buffer of a poll (old remainder, then the new bytes) is one line, its   *)
(* newline and an unterminated remainder (possibly empty), exactly the     *)
(* line and a newline are written and the remainder becomes the pending    *)
(* buffer.                                                                 *)
C3_PartialLineCarried ==
    (pc = "read_socket" /\ Cardinality({i \in 1..Len(Accumulated) : Accumulated[i] = NL}) = 1) =>
        LET k == CHOOSE i \in 1..Len(Accumulated) : Accumulated[i] = NL IN
        /\ InputWrites = <<Write(SubSeq(Accumulated, 1, k - 1)), Write(<<NL>>)>>
        /\ input_buffer = SubSeq(Accumulated, k + 1, Len(Accumulated))

(* First poll: a line and a remainder; second poll: the rest and a newline *)
C3_Witness ==
    /\ pc = "read_socket"
    /\ iter = 1
    /\ PrevPending # <<>>
    /\ Len(PollChunk) >= 2
    /\ Last(PollChunk) = NL
    /\ InputWrites = <<Write(PrevPending \o SubSeq(PollChunk, 1, Len(PollChunk) - 1)),
                       Write(<<NL>>)>>
    /\ input_buffer = <<>>
    /\ Len(Written(out)) = 4

C4_Expected ==
    << [op |-> "negotiate", action |-> "Do", option |-> 201, data |-> <<>>],
       [op |-> "subnegotiate", action |-> "-", option |-> 201, data |->
          <<"Core.Hello { \"client\": \"avatarmud-client-rs\", \"version\": \"0.1.0\" }">>],
       [op |-> "subnegotiate", action |-> "-", option |-> 201, data |->
          <<"Core.Supports.Set [ \"Core 1\",\"Char 1\",\"Room 1\",\"Comm 1\",\"IRE.Composer 1\" ]">>] >>

(* C4: the reaction to Negotiation(Will, GMCP), whenever it completes, is  *)
(* exactly negotiate(Do, GMCP), subnegotiate(Core.Hello),                  *)
(* subnegotiate(Core.Supports.Set), in this order and nothing else; a      *)
(* reaction cut short by a failing call has made a prefix of these calls.  *)
C4_WillGmcpReply ==
    telnet_event = Negotiation("Will", TELOPT_GMCP) =>
        /\ pc = "sleep" =>
              /\ Reaction = C4_Expected
              /\ Len(out) >= 3
              /\ SubSeq(out, Len(out) - 2, Len(out)) = C4_Expected
        /\ pc = "panicked" =>
              \E n \in 1..3 :
                /\ Reaction = SubSeq(C4_Expected, 1, n)
                /\ Len(out) >= n - 1
                /\ SubSeq(out, Len(out) - n + 2, Len(out)) = SubSeq(C4_Expected, 1, n - 1)

(* Will GMCP answered a second time, GMCP having been negotiated before *)
C4_Witness ==
    /\ pc = "sleep"
    /\ iter = 1
    /\ telnet_event = Negotiation("Will", TELOPT_GMCP)
    /\ Reaction = C4_Expected
    /\ Len(SelectSeq(out, LAMBDA c : c.op = "subnegotiate")) = 4

(* C5: echo mirror.  While the loop runs, the terminal echoes exactly when *)
(* no ECHO negotiation was processed yet or the last one was Wont.         *)
C5_EchoMirror ==
    InLoop => (("ECHO" \in c_lflag) <=> (echo_seen = <<>> \/ Last(echo_seen) = "Wont"))

(* Echo taken by the server and handed back *)
C5_Witness ==
    /\ pc = "sleep"
    /\ echo_seen = <<"Will", "Wont">>
    /\ "ECHO" \in c_lflag

(* C6: each processed Negotiation(Will, ECHO) causes exactly one           *)
(* set_echo(false), each Negotiation(Wont, ECHO) exactly one               *)
(* set_echo(true), in the order of the events, and no other call.          *)
C6_EchoCallsFollowEvents ==
    /\ echo_seen # <<>> =>
          echo_calls = <<TRUE>> \o [i \in 1..Len(echo_seen) |-> echo_seen[i] = "Wont"]
    /\ (telnet_event.type = "Negotiation" /\ telnet_event.option = TELOPT_ECHO
            /\ telnet_event.action \in {"Will", "Wont"} /\ pc \in {"sleep", "panicked"}) =>
          /\ Len(Reaction) = 1
          /\ Reaction[1].op = "set_echo"
          /\ Reaction[1].data = <<IF telnet_event.action = "Wont" THEN "true" ELSE "false">>

(* Will ECHO in one iteration, Wont ECHO in the next *)
C6_Witness ==
    /\ pc = "sleep"
    /\ echo_seen = <<"Will", "Wont">>
    /\ echo_calls = <<TRUE, FALSE, TRUE>>

(* C7: an Error event ends the session through the clean path: the        *)
(* message is reported and the loop is left without a panic.  The only     *)
(* panic on that path is an I/O failure of the report on standard output   *)
(* itself.  The clean end is distinct from every fatal one: it is reached  *)
(* from an Error event only and carries no panic message.                  *)
C7_ErrorTerminates ==
    /\ telnet_event.type = "Error" =>
          \/ pc \in {"match", "exited"}
          \/ pc = "panicked" /\ panic = "failed printing to stdout"
    /\ pc = "exited" =>
          /\ telnet_event.type = "Error"
          /\ panic = ""
          /\ Len(Reaction) = 1
          /\ Reaction[1] = Local("println", telnet_event.data)

C7_Witness ==
    /\ pc = "exited"
    /\ telnet_event.type = "Error"
    /\ iter = 1

ReactionShapes ==
    { <<>>, <<"stdout_write">>, <<"stdout_write", "flush">>, <<"println">>,
      <<"set_echo">>, <<"negotiate", "subnegotiate", "subnegotiate">> }

(* C8: in every iteration the poll of stdin comes first, every write of an *)
(* input line comes before the one read of the remote stream, and what     *)
(* follows the read until the sleep is the reaction to one event at most.  *)
C8_IterationOrder ==
    pc \in {"match", "sleep"} =>
        /\ ReadAt >= 2
        /\ Cardinality({k \in 1..Len(trace) : trace[k].op = "read_nonblocking"}) = 1
        /\ trace[1].op = "read_available_to_string"
        /\ \A k \in 2..(ReadAt - 1) : trace[k].op = "write"
        /\ \A k \in 1..Len(trace) : trace[k].op = "write" => k < ReadAt
        /\ [k \in 1..Len(Reaction) |-> Reaction[k].op] \in ReactionShapes
        /\ pc = "match" => Reaction = <<>>

(* A line was written, then an event was read and reacted to *)
C8_Witness ==
    /\ pc = "sleep"
    /\ ReadAt = 4
    /\ Len(Reaction) = 3

(* C9: on the remote stream every line is followed at once by one newline  *)
(* write (unless that write is still to come or has failed), every newline *)
(* write follows a line, and the lines go out in the order typed.          *)
C9_LineFraming ==
    /\ \A i \in 1..Len(out) :
          /\ (IsWrite(out[i]) /\ out[i].data # <<NL>>) =>
                \/ i < Len(out) /\ out[i + 1] = Write(<<NL>>)
                \/ i = Len(out) /\ pc \in {"write_nl", "panicked"}
          /\ (IsWrite(out[i]) /\ out[i].data = <<NL>>) =>
                /\ i > 1
                /\ IsWrite(out[i - 1])
                /\ out[i - 1].data # <<NL>>
                /\ ~HasNewline(out[i - 1].data)
    /\ IsPrefix(Flatten(Written(out)), fed)

(* Two lines sent, with a GMCP reply between them *)
C9_Witness ==
    /\ pc = "read_socket"
    /\ Len(out) = 8
    /\ Len(Written(out)) = 4
    /\ out[2].data # out[7].data

(* C10: a Data event whose last byte is not CR is written to local output  *)
(* and flushed in the same iteration; one whose last byte is CR is written *)
(* and not flushed, and what is then buffered stays buffered until the     *)
(* reaction of a later iteration.                                          *)
C10_FlushUnlessCr ==
    /\ [](  (pc = "sleep" /\ telnet_event.type = "Data") =>
              /\ telnet_event.data # <<>>
              /\ Last(telnet_event.data) # CR =>
                    /\ Reaction = << Local("stdout_write", telnet_event.data),
                                     Local("flush", <<>>) >>
                    /\ stdout_buf = <<>>
              /\ Last(telnet_event.data) = CR =>
                    /\ Reaction = << Local("stdout_write", telnet_event.data) >>
                    /\ stdout_buf # <<>>
                    /\ Last(stdout_buf) = CR )
    /\ [][ stdout_buf' # stdout_buf => pc = "match" ]_vars

(* A CR-terminated chunk is still buffered when the next event is read *)
C10_Witness ==
    /\ pc = "match"
    /\ iter = 1
    /\ stdout_buf = <<CR>>
    /\ telnet_event = Data(<<"x">>)

(* The calls on the Telnet session attempted in the current iteration *)
IsRemoteCall(c) == c.op \in {"write", "negotiate", "subnegotiate"}

Attempted == SelectSeq(trace, IsRemoteCall)

(* The last n calls that succeeded on the Telnet session *)
LastOut(n) == SubSeq(out, Len(out) - n + 1, Len(out))

(* The process has panicked in a call on the Telnet session, in the loop *)
RemoteCallFailed ==
    /\ pc = "panicked"
    /\ trace # <<>>
    /\ \/ IsRemoteCall(Last(trace))
       \/ panic = "Read error"

(* C11: no retry, no degraded mode.  While the loop runs every call        *)
(* attempted on the Telnet session in the iteration has succeeded; a       *)
(* failed write, read, negotiate or subnegotiate is the last call the      *)
(* process ever makes: it was attempted once, the calls before it          *)
(* succeeded, and after it nothing changes any more.                       *)
C11_NoRetry ==
    /\ [](InLoop =>
            /\ Len(out) >= Len(Attempted)
            /\ LastOut(Len(Attempted)) = Attempted)
    /\ []((RemoteCallFailed /\ panic # "Read error") =>
            /\ Len(out) >= Len(Attempted) - 1
            /\ LastOut(Len(Attempted) - 1) = SubSeq(Attempted, 1, Len(Attempted) - 1))
    /\ []((pc = "panicked" /\ panic = "Read error") =>
            /\ Last(trace).op = "read_nonblocking"
            /\ Cardinality({k \in 1..Len(trace) : trace[k].op = "read_nonblocking"}) = 1
            /\ Len(out) >= Len(Attempted)
            /\ LastOut(Len(Attempted)) = Attempted)
    /\ [][ pc = "panicked" =>
             /\ pc' = "panicked"
             /\ UNCHANGED <<out, trace, echo_calls, c_lflag, iter, stdout_buf>> ]_vars

(* The second call of a GMCP reply failed, in the second iteration *)
C11_Witness ==
    /\ RemoteCallFailed
    /\ iter = 1
    /\ panic = "Failed to send Core.Hello"
    /\ Last(trace).op = "subnegotiate"
    /\ Last(out).op = "negotiate"

(* C12: Echo Controller idempotence.  A successful set_echo(v) leaves the  *)
(* echo flag equal to v and every other flag as it was; a successful       *)
(* set_echo(v) that follows a set_echo(v) changes nothing at all.          *)
C12_SetEchoIdempotent ==
    [][ (echo_calls' # echo_calls /\ pc' # "panicked") =>
          LET v == echo_calls'[Len(echo_calls')] IN
          /\ ("ECHO" \in c_lflag') <=> v
          /\ c_lflag' \ {"ECHO"} = c_lflag \ {"ECHO"}
          /\ (echo_calls # <<>> /\ echo_calls[Len(echo_calls)] = v) => c_lflag' = c_lflag
      ]_vars

(* set_echo(false) twice on a terminal that had echo and other flags set *)
C12_Witness ==
    /\ pc = "set_echo"
    /\ echo_calls = <<FALSE, FALSE>>
    /\ c_lflag = {"ICANON", "ISIG"}

(* Nothing of the loop has happened: no poll, no remote call, no iteration *)
LoopUntouched == trace = <<>> /\ fed = <<>> /\ iter = 0 /\ input_buffer = <<>>

(* C13: startup ordering.  The first call on the Telnet session is always  *)
(* negotiate(Do, GMCP); the loop (poll, remote write or read) starts only  *)
(* after it succeeded, hence after resolution and connect; a failure of    *)
(* resolution, connect or the initial negotiation is a panic with the loop *)
(* untouched and nothing sent.                                             *)
C13_StartupOrder ==
    /\ out # <<>> =>
          out[1] = [op |-> "negotiate", action |-> "Do", option |-> 201, data |-> <<>>]
    /\ (InLoop \/ ~LoopUntouched) =>
          /\ out # <<>>
          /\ echo_calls # <<>>
          /\ echo_calls[1] = TRUE
    /\ pc \in {"resolve", "connect", "negotiate"} => out = <<>> /\ LoopUntouched
    /\ panic \in {"Failed to resolve hostname", "Address iterator returned none",
                  "Connection failed"} =>
          pc = "panicked" /\ out = <<>> /\ echo_calls = <<>> /\ LoopUntouched
    /\ (panic = "Failed to negotiate TELOPT_GMCP" /\ telnet_event = NoData) =>
          pc = "panicked" /\ out = <<>> /\ echo_calls = <<>> /\ LoopUntouched

(* The first line goes out behind the initial negotiation *)
C13_Witness ==
    /\ pc = "write_nl"
    /\ iter = 0
    /\ Len(out) = 2
    /\ out[1].op = "negotiate"
    /\ out[2].op = "write"

HasBad(bytes) == \E i \in 1..Len(bytes) : bytes[i] = "0xFF"

(* The step leaves the loop through the break of the Error arm *)
ErrorExitStep == pc = "match" /\ telnet_event.type = "Error" /\ pc' = "exited"

(* The step leaves the loop by the panic of a failed I/O call: on the      *)
(* Telnet session, on stdin (the io::Error of read_available_to_string,    *)
(* bytes that are not text included), on stdout or on the terminal         *)
(* attributes                                                              *)
IoFailureStep ==
    /\ pc' = "panicked"
    /\ \/ /\ pc \in {"read_stdin", "write_line", "write_nl"}
          /\ panic' = "Result::unwrap() on an Err value"
       \/ /\ pc = "read_socket"
          /\ panic' = "Read error"
       \/ /\ pc = "match"
          /\ telnet_event.type = "Data"
          /\ panic' \in {"Failed to write to stdout", "Failed to flush"}
       \/ /\ pc = "match"
          /\ telnet_event.type = "Error" \/ (telnet_event.type = "Subnegotiation"
                                              /\ telnet_event.option = 201)
          /\ panic' = "failed printing to stdout"
       \/ /\ pc = "match"
          /\ telnet_event.type = "Negotiation"
          /\ telnet_event.option = 1
          /\ telnet_event.action \in {"Will", "Wont"}
          /\ panic' \in {"Failed to tcgetattr", "Failed to tcsetattr"}
       \/ /\ pc = "match"
          /\ telnet_event.type = "Negotiation"
          /\ telnet_event.option = 201
          /\ telnet_event.action = "Will"
          /\ panic' \in {"Failed to negotiate TELOPT_GMCP", "Failed to send Core.Hello",
                         "Failed to send Core.Supports.Set"}

(* The step leaves the loop by the panic of from_utf8 on a GMCP payload *)
DecodeFailureStep ==
    /\ pc' = "panicked"
    /\ panic' = "Result::unwrap() on an Err value"
    /\ pc = "match"
    /\ telnet_event.type = "Subnegotiation"
    /\ telnet_event.option = 201
    /\ HasBad(telnet_event.data)

(* The step leaves the loop by the panic on the last byte of an empty chunk *)
EmptyDataStep ==
    /\ pc = "match"
    /\ telnet_event.type = "Data"
    /\ telnet_event.data = <<>>
    /\ pc' = "panicked"
    /\ panic' = "Option::unwrap() on a None value"

Terminated == pc \in {"exited", "panicked"}

(* C14 as stated: the loop is left only on a protocol Error event or on an *)
(* I/O failure.                                                            *)
C14_OnlyErrorOrIoFailure ==
    [][ (InLoop /\ ~InLoop') => (ErrorExitStep \/ IoFailureStep) ]_vars

(* C14: the loop is left only on a protocol Error event, on an I/O         *)
(* failure, on a GMCP payload that is not text or on an empty Data         *)
(* payload; once the session has terminated                                *)
(* there is no further remote call, output write or echo change.           *)
C14_LeavesLoopOnlyBy ==
    /\ [][ (InLoop /\ ~InLoop') =>
             (ErrorExitStep \/ IoFailureStep \/ DecodeFailureStep \/ EmptyDataStep) ]_vars
    /\ [][ Terminated =>
             /\ pc' = pc
             /\ UNCHANGED <<out, trace, stdout_buf, echo_calls, c_lflag>> ]_vars

(* The loop left on an empty Data payload, in its second iteration *)
C14_Witness ==
    /\ pc = "panicked"
    /\ iter = 1
    /\ panic = "Option::unwrap() on a None value"
    /\ telnet_event.type = "Data"

(* No event, or an event other than Data, Error, Will/Wont ECHO, Will GMCP *)
(* and a GMCP subnegotiation                                               *)
Inert(e) ==
    \/ e.type = "NoData"
    \/ /\ e.type = "Negotiation"
       /\ ~(e.option = 1 /\ e.action \in {"Will", "Wont"})
       /\ ~(e.option = 201 /\ e.action = "Will")
    \/ /\ e.type = "Subnegotiation"
       /\ e.option # 201

(* C15: the reaction to no event or to an unhandled event sends nothing,   *)
(* makes no set_echo call, writes nothing to stdout, leaves input_buffer   *)
(* alone and goes on to the sleep of the same iteration.                   *)
C15_UnhandledInert ==
    /\ [][ (pc = "match" /\ Inert(telnet_event)) =>
             /\ pc' = "sleep"
             /\ UNCHANGED <<out, echo_calls, c_lflag, stdout_buf, input_buffer,
                            trace, telnet_event>> ]_vars
    /\ []( (pc = "sleep" /\ Inert(telnet_event)) => Reaction = <<>> )

(* Do ECHO was read and ignored while a partial line was pending *)
C15_Witness ==
    /\ pc = "sleep"
    /\ telnet_event = [type |-> "Negotiation", action |-> "Do", option |-> 1,
                       data |-> <<>>]
    /\ input_buffer = <<"a">>
    /\ Reaction = <<>>

(* C16: a Data event of zero bytes is fatal: its reaction panics (on the   *)
(* stdout write or on the last byte of the empty chunk), the loop reaches  *)
(* neither the sleep nor a further iteration.                              *)
C16_EmptyDataFatal ==
    /\ []( (telnet_event.type = "Data" /\ telnet_event.data = <<>>) =>
             pc \in {"match", "panicked"} )
    /\ [][ (pc = "match" /\ telnet_event.type = "Data" /\ telnet_event.data = <<>>) =>
             /\ pc' = "panicked"
             /\ panic' \in {"Failed to write to stdout",
                            "Option::unwrap() on a None value"}
             /\ UNCHANGED <<iter, out, echo_calls, c_lflag, input_buffer>> ]_vars
    /\ [][ (pc = "panicked" /\ telnet_event.type = "Data") =>
             UNCHANGED <<pc, iter, trace, out>> ]_vars

(* The first read of the run returned an empty Data chunk *)
C16_Witness ==
    /\ pc = "panicked"
    /\ iter = 0
    /\ telnet_event = [type |-> "Data", action |-> "-", option |-> 0, data |-> <<>>]
    /\ panic = "Option::unwrap() on a None value"
    /\ trace[Len(trace)].op = "stdout_write"

IsGmcpMessage(e) == e.type = "Subnegotiation" /\ e.option = 201

(* C17: bytes polled from stdin that are not text panic in the iteration   *)
(* that read them, before anything else is called; a GMCP payload that is  *)
(* not text panics in its reaction; a GMCP payload that is text is printed *)
(* after "GMCP message received: ", byte for byte, and its reaction sends  *)
(* nothing and leaves the echo alone.                                      *)
C17_DecodingFatal ==
    /\ []( HasBad(fed) =>
             /\ pc = "panicked"
             /\ Len(trace) = 1
             /\ trace[1].op = "read_available_to_string"
             /\ HasBad(trace[1].data) )
    /\ []( (IsGmcpMessage(telnet_event) /\ HasBad(telnet_event.data)) =>
             pc \in {"match", "panicked"} )
    /\ [][ (pc = "match" /\ IsGmcpMessage(telnet_event) /\ HasBad(telnet_event.data)) =>
             (pc' = "panicked" /\ UNCHANGED <<trace, stdout_buf, iter>>) ]_vars
    /\ []( (pc = "sleep" /\ IsGmcpMessage(telnet_event)) =>
             Reaction = << [op |-> "println", action |-> "-", option |-> 0,
                            data |-> <<"GMCP message received: ">>
                                     \o telnet_event.data] >> )
    /\ [][ (pc = "match" /\ IsGmcpMessage(telnet_event)) =>
             UNCHANGED <<out, echo_calls, c_lflag, input_buffer>> ]_vars

(* A GMCP payload that is not text has ended the run *)
C17_Witness ==
    /\ pc = "panicked"
    /\ telnet_event = [type |-> "Subnegotiation", action |-> "-", option |-> 201,
                       data |-> <<"0xFF">>]
    /\ panic = "Result::unwrap() on an Err value"
    /\ trace[Len(trace)].op = "read_nonblocking"

IsEchoNegotiation(e) ==
    e.type = "Negotiation" /\ e.option = 1 /\ e.action \in {"Will", "Wont"}

TcFailed == panic \in {"Failed to tcgetattr", "Failed to tcsetattr"}

(* C18: no path out of the loop calls set_echo: the step that ends the     *)
(* session leaves the terminal attributes as they are, nothing changes     *)
(* them afterwards, and so at termination the ECHO flag is the one set by  *)
(* the last ECHO negotiation that was processed (by the startup call if    *)
(* there was none).                                                        *)
C18_NoRestoreOnExit ==
    /\ [][ (InLoop /\ Terminated') =>
             /\ c_lflag' = c_lflag
             /\ (~IsEchoNegotiation(telnet_event) => echo_calls' = echo_calls) ]_vars
    /\ [][ Terminated => UNCHANGED <<c_lflag, echo_calls>> ]_vars
    /\ []( (Terminated /\ echo_calls # <<>>) =>
             Len(echo_calls) = 1 + Len(echo_seen) )
    /\ []( (Terminated /\ echo_calls # <<>> /\ ~TcFailed) =>
             (("ECHO" \in c_lflag) <=>
                  (echo_seen = <<>> \/ echo_seen[Len(echo_seen)] = "Wont")) )

(* Will ECHO was processed, then an Error event ended the session: the     *)
(* terminal is left with echo off                                          *)
C18_Witness ==
    /\ pc = "exited"
    /\ "ECHO" \notin c_lflag
    /\ echo_seen = <<"Will">>
    /\ telnet_event.type = "Error"

NewlinesIn(s) == Cardinality({i \in 1..Len(s) : s[i] = "\n"})

(* The bytes of s up to its k-th newline, that newline included *)
ThroughLine(s, k) ==
    LET end == CHOOSE i \in 1..Len(s) :
                   s[i] = "\n" /\ NewlinesIn(SubSeq(s, 1, i)) = k
    IN  SubSeq(s, 1, end)

(* The k-th line has been read from stdin *)
LineRead(k) == NewlinesIn(fed) >= k

(* The k-th line and its newline have been written to the remote stream,   *)
(* behind the lines before it                                              *)
LineSent(k) ==
    /\ NewlinesIn(fed) >= k
    /\ IsPrefix(ThroughLine(fed, k), Flatten(Written(out)))

(* C19: under fair scheduling of the loop, every line read from stdin is   *)
(* eventually written to the remote stream with its newline, unless the    *)
(* session terminates first; whatever events the remote sends and however  *)
(* many lines one poll delivered.                                          *)
C19_LineDelivery ==
    \A k \in 1..MaxFed : LineRead(k) ~> (Terminated \/ LineSent(k))

(* Three lines were read, two are sent and the third is still pending      *)
(* after the input step: a poll delivered more than one line               *)
C19_Witness ==
    /\ pc = "read_socket"
    /\ NewlinesIn(fed) = 3
    /\ LineSent(2)
    /\ ~LineSent(3)
    /\ HasNewline(input_buffer)

====
